---- MODULE Spec2Model ----
(***************************************************************************)
(* The Shopify staged-upload relay handler                                 *)
(* (puzzle-upload/Netlify/functions/upload-image.mjs): its two metadata    *)
(* sanitizers as operators over strings, and the handler as a state        *)
(* machine with the scratch-file write stream as a second process.         *)
(*                                                                         *)
(* A JavaScript string is modelled as a sequence of one-character strings  *)
(* (UTF-16 code units); "u00e9" stands for the single code unit U+00E9.    *)
(***************************************************************************)
EXTENDS Integers, Sequences, FiniteSets, TLC

VARIABLES san, event, pc, parse, ws, disk, local, calls, replies, responses, fault

vars == <<san, event, pc, parse, ws, disk, local, calls, replies, responses, fault>>

sanVars == <<san>>

handlerVars == <<event, pc, parse, ws, disk, local, calls, replies, responses, fault>>

(***************************************************************************)
(* Strings                                                                 *)
(***************************************************************************)
Lower == <<"a","b","c","d","e","f","g","h","i","j","k","l","m",
           "n","o","p","q","r","s","t","u","v","w","x","y","z">>

Upper == <<"A","B","C","D","E","F","G","H","I","J","K","L","M",
           "N","O","P","Q","R","S","T","U","V","W","X","Y","Z">>

Digits == {"0","1","2","3","4","5","6","7","8","9"}

Range(s) == {s[i] : i \in 1..Len(s)}

MaxOf(S) == CHOOSE x \in S : \A y \in S : y <= x

MinOf(S) == CHOOSE x \in S : \A y \in S : x <= y

\* One code unit of String.prototype.toLowerCase(): A-Z map to a-z, every other
\* code unit of the model's alphabet is its own lower case.
UpperChars == Range(Upper)

AlnumChars == Range(Lower) \cup Range(Upper) \cup Digits

NameChars == AlnumChars \cup {"-", "_", "."}

ToLowerChar(c) ==
    IF c \in UpperChars THEN Lower[CHOOSE i \in 1..Len(Upper) : Upper[i] = c] ELSE c

ToLowerCase(s) == [i \in 1..Len(s) |-> ToLowerChar(s[i])]

\* String.prototype.startsWith
StartsWith(s, p) == Len(s) >= Len(p) /\ SubSeq(s, 1, Len(p)) = p

\* String.prototype.includes
Includes(s, p) ==
    \E i \in 1..(Len(s) - Len(p) + 1) : SubSeq(s, i, i + Len(p) - 1) = p

\* s.split(sep).pop(): what follows the last occurrence of sep
SplitPop(s, sep) ==
    LET at == {i \in 1..Len(s) : s[i] = sep}
    IN  IF at = {} THEN s ELSE SubSeq(s, MaxOf(at) + 1, Len(s))

\* the elements of s at the indices where keep is TRUE, in order
Keep(s, keep) ==
    LET tagged == [i \in 1..Len(s) |-> <<keep[i], s[i]>>]
        kept   == SelectSeq(tagged, LAMBDA p : p[1])
    IN  [i \in 1..Len(kept) |-> kept[i][2]]

\* [a-z0-9] under the i flag
IsAlnum(c) == c \in AlnumChars

\* [a-z0-9\-_.] under the i flag
IsNameChar(c) == c \in NameChars

\* [-_.]
IsSeparator(c) == c \in {"-", "_", "."}

(***************************************************************************)
(* SAFE_IMAGE_MIME                                                         *)
(***************************************************************************)
IMAGE_JPEG == <<"i","m","a","g","e","/","j","p","e","g">>
IMAGE_WEBP == <<"i","m","a","g","e","/","w","e","b","p">>
IMAGE_PNG  == <<"i","m","a","g","e","/","p","n","g">>
IMAGE_GIF  == <<"i","m","a","g","e","/","g","i","f">>
IMAGE_BMP  == <<"i","m","a","g","e","/","b","m","p">>
IMAGE_TIFF == <<"i","m","a","g","e","/","t","i","f","f">>

\* line 11 left out: a type of any family is matched against the image names
SAFE_IMAGE_MIME_AnyFamily(mt0) ==
    IF mt0 = <<>> THEN IMAGE_JPEG
    ELSE LET mt == ToLowerCase(mt0)
         IN  IF Includes(mt, <<"h","e","i","c">>) \/ Includes(mt, <<"h","e","i","f">>)
                  THEN IMAGE_JPEG
             ELSE IF Includes(mt, <<"w","e","b","p">>) THEN IMAGE_WEBP
             ELSE IF Includes(mt, <<"p","n","g">>) THEN IMAGE_PNG
             ELSE IF Includes(mt, <<"g","i","f">>) THEN IMAGE_GIF
             ELSE IF Includes(mt, <<"b","m","p">>) THEN IMAGE_BMP
             ELSE IF Includes(mt, <<"t","i","f">>) THEN IMAGE_TIFF
             ELSE IMAGE_JPEG

\* An absent (undefined) type and the empty string are both falsy at `!mt`;
\* both are the empty sequence here.
SAFE_IMAGE_MIME(mt0) ==
    IF mt0 = <<>> THEN IMAGE_JPEG
    ELSE LET mt == ToLowerCase(mt0)
         IN  IF ~StartsWith(mt, <<"i","m","a","g","e","/">>) THEN IMAGE_JPEG
             ELSE IF Includes(mt, <<"h","e","i","c">>) \/ Includes(mt, <<"h","e","i","f">>)
                  THEN IMAGE_JPEG
             ELSE IF Includes(mt, <<"w","e","b","p">>) THEN IMAGE_WEBP
             ELSE IF Includes(mt, <<"p","n","g">>) THEN IMAGE_PNG
             ELSE IF Includes(mt, <<"g","i","f">>) THEN IMAGE_GIF
             ELSE IF Includes(mt, <<"b","m","p">>) THEN IMAGE_BMP
             ELSE IF Includes(mt, <<"t","i","f">>) THEN IMAGE_TIFF
             ELSE IMAGE_JPEG

(***************************************************************************)
(* SAFE_FILENAME                                                           *)
(***************************************************************************)
DOT_JPG == <<".","j","p","g">>

UPLOAD == <<"u","p","l","o","a","d">>

BaseMax == 80

\* the k of /\.([a-z0-9]{2,5})$/i: the length of the matched extension without
\* its dot, or 0 when the pattern does not match
ExtLen(name) ==
    LET n  == Len(name)
        ks == {k \in 2..5 : /\ n >= k + 1
                            /\ name[n - k] = "."
                            /\ \A j \in (n - k + 1)..n : IsAlnum(name[j])}
    IN  IF ks = {} THEN 0 ELSE CHOOSE k \in ks : TRUE

HeicExts == { <<".","h","e","i","c">>, <<".","h","e","i","f">>,
              <<".","h","e","i","f","s">> }

\* .replace(/[^a-z0-9\-_.]+/gi, "-"): every maximal run of other characters
\* becomes one "-"
ReplaceOthers(s) ==
    LET dashed == [i \in 1..Len(s) |-> IF IsNameChar(s[i]) THEN s[i] ELSE "-"]
    IN  Keep(dashed, [i \in 1..Len(s) |->
                          IsNameChar(s[i]) \/ i = 1 \/ IsNameChar(s[i - 1])])

\* .replace(/-+/g, "-")
CollapseDashes(s) ==
    Keep(s, [i \in 1..Len(s) |-> s[i] # "-" \/ i = 1 \/ s[i - 1] # "-"])

\* .replace(/^[-_.]+|[-_.]+$/g, "")
TrimSeparators(s) ==
    LET body == {i \in 1..Len(s) : ~IsSeparator(s[i])}
    IN  IF body = {} THEN <<>> ELSE SubSeq(s, MinOf(body), MaxOf(body))

\* line 30 left out: the base is never cut
TruncateNever(base) == base

\* base.slice(0, 80) when base.length > 80
Truncate(base) == IF Len(base) > BaseMax THEN SubSeq(base, 1, BaseMax) ELSE base

SAFE_FILENAME(name0, fallbackExt) ==
    LET name1 == IF name0 = <<>> THEN UPLOAD \o fallbackExt ELSE name0
        name  == SplitPop(SplitPop(name1, "/"), "\\")
        k     == ExtLen(name)
        ext0  == IF k > 0 THEN ToLowerCase(SubSeq(name, Len(name) - k, Len(name)))
                          ELSE fallbackExt
        ext   == IF ext0 \in HeicExts THEN DOT_JPG ELSE ext0
        base0 == IF k > 0 THEN SubSeq(name, 1, Len(name) - k - 1) ELSE name
        base1 == TrimSeparators(CollapseDashes(ReplaceOthers(base0)))
        base2 == IF base1 = <<>> THEN UPLOAD ELSE base1
    IN  Truncate(base2) \o ext

(***************************************************************************)
(* The sanitizers applied to bounded inputs                                *)
(***************************************************************************)
MaxShort == 1

MaxNear == 3

MaxTail == 2

MaxWords == 2

NameAlphabet == {"a", "B", ".", "-", "_", "/", "\\", "u00e9"}

RECURSIVE SeqsUpTo(_, _)
SeqsUpTo(S, n) ==
    IF n = 0 THEN {<<>>}
    ELSE LET shorter == SeqsUpTo(S, n - 1)
         IN  shorter \cup {Append(s, x) : s \in shorter, x \in S}

Run(c, n) == [i \in 1..n |-> c]

NameSuffixes ==
    { <<>>, DOT_JPG, <<".","H","E","I","C">>, <<".","h","e","i","f","s">>,
      <<".","m","p","4">>, <<".","j","p","e","g","x">> }

\* short names, and names whose base is about BaseMax characters long
RunLengths == (0..MaxShort) \cup ((BaseMax - MaxNear)..(BaseMax + MaxNear))

MimePrefixes ==
    { <<>>, <<"i","m","a","g","e","/">>, <<"I","M","A","G","E","/">>,
      <<"t","e","x","t","/">>, <<"x","i","m","a","g","e","/">> }

MimeWords ==
    { <<"h","e","i","c">>, <<"h","e","i","f">>, <<"w","e","b","p">>, <<"p","n","g">>,
      <<"P","N","G">>, <<"g","i","f">>, <<"b","m","p">>, <<"t","i","f">>,
      <<"t","i","f","f">>, <<"j","p","e","g">>, <<"x","-">>,
      <<"s","v","g","+","x","m","l">>, <<"p","l","a","i","n">> }

RECURSIVE Concat(_)
Concat(ws0) == IF ws0 = <<>> THEN <<>> ELSE Head(ws0) \o Concat(Tail(ws0))

SanIdle == [stage |-> "idle", name |-> <<>>, mime |-> <<>>,
            fname |-> <<>>, fmime |-> <<>>, rname |-> <<>>, rmime |-> <<>>]

(***************************************************************************)
(* Error messages are sequences of text fragments, so that "contains" and  *)
(* the catch block's pattern test are decided by the text, not assumed.    *)
(***************************************************************************)
FORMAT_REJECTION == "did not match the expected pattern"

FRIENDLY ==
    <<"Shopify rejected the upload data format (likely MIME/filename). Try JPG/PNG and a simple filename.">>

\* /did not match the expected pattern/i.test(String(e.message))
MatchesFormatRejection(message) ==
    \E i \in 1..Len(message) : message[i] = FORMAT_REJECTION

\* the Allow-Headers entry of line 77 left out
corsHeadersWithoutAllowHeaders ==
    ("Access-Control-Allow-Origin" :> "*")
    @@ ("Access-Control-Allow-Methods" :> "POST, OPTIONS")

corsHeaders ==
    ("Access-Control-Allow-Origin" :> "*")
    @@ ("Access-Control-Allow-Methods" :> "POST, OPTIONS")
    @@ ("Access-Control-Allow-Headers" :> "Content-Type, Authorization")

\* the catch block of handler: the response for a thrown error with e.message
CatchResponse(message) ==
    LET msg == IF MatchesFormatRejection(message) THEN FRIENDLY
               ELSE IF message = <<>> THEN <<"Upload failed">> ELSE message
    IN  [statusCode |-> 500, headers |-> corsHeaders, body |-> [error |-> msg]]

PreflightResponse == [statusCode |-> 200, headers |-> corsHeaders]

MethodNotAllowedResponse ==
    [statusCode |-> 405, headers |-> corsHeaders,
     body |-> [error |-> <<"Method not allowed">>]]

MissingEnvResponse ==
    [statusCode |-> 500, headers |-> corsHeaders,
     body |-> [error |-> <<"Missing Shopify env vars">>]]

SuccessResponse(url, id, safeName, mimeType) ==
    [statusCode |-> 200, headers |-> corsHeaders,
     body |-> [url |-> url, id |-> id, filename |-> safeName, mimeType |-> mimeType]]

(***************************************************************************)
(* Requests                                                                *)
(***************************************************************************)
MaxBytes == 2

MaxParams == 2

Methods == {"OPTIONS", "POST", "GET"}

\* what event.body and event.headers hold
\*   null_body        event.body is null: Buffer.from throws
\*   no_content_type  event.headers has no content-type: busboy() throws
\*   malformed        not multipart data: the parser emits 'error'
\*   no_file          well-formed, no file part
\*   file             well-formed, one file part
BodyKinds == {"null_body", "no_content_type", "malformed", "no_file", "file"}

Uploads ==
    { [filename |-> <<"t","e","s","t",".","j","p","g">>, mimetype |-> IMAGE_JPEG],
      [filename |-> <<"M","y"," ","P",".","H","E","I","C">>,
       mimetype |-> <<"i","m","a","g","e","/","h","e","i","c">>],
      [filename |-> <<>>, mimetype |-> <<>>] }

Events ==
    { [httpMethod |-> m, configured |-> c, body |-> b,
       filename |-> u.filename, mimetype |-> u.mimetype, nbytes |-> n] :
        m \in Methods, c \in BOOLEAN, b \in BodyKinds, u \in Uploads, n \in 0..MaxBytes }

SCRATCH == "upload-<now>-<random>"

(***************************************************************************)
(* parseMultipart                                                          *)
(***************************************************************************)
ParseRejected(message) ==
    [state |-> "rejected", filepath |-> "", filename |-> <<>>, mimetype |-> <<>>,
     size |-> 0, error |-> message]

ParseResolved(filepath, filename, mimetype, size) ==
    [state |-> "resolved", filepath |-> filepath, filename |-> filename,
     mimetype |-> mimetype, size |-> size, error |-> <<>>]

\* whether the parser emits 'file' (and so creates the scratch write stream)
EmitsFile(ev) == ev.body = "file"

\* the promise parseMultipart returns, as it settles
parseMultipart(ev) ==
    CASE ev.body = "no_content_type" -> ParseRejected(<<"Missing Content-Type">>)
      [] ev.body = "null_body" ->
            ParseRejected(<<"The first argument must be of type string or Buffer">>)
      [] ev.body = "malformed" -> ParseRejected(<<"Unexpected end of form">>)
      [] ev.body = "no_file" -> ParseResolved("", <<>>, <<>>, 0)
      [] OTHER -> ParseResolved(SCRATCH, ev.filename, ev.mimetype, ev.nbytes)

(***************************************************************************)
(* GQL                                                                     *)
(***************************************************************************)
Threw(message) == [threw |-> TRUE, message |-> message, staged |-> <<>>, created |-> <<>>]

Returned(data) ==
    [threw |-> FALSE, message |-> <<>>, staged |-> data.staged, created |-> data.created]

\* reply.data is <<>> when the JSON has no data member; otherwise one record whose
\* staged / created member is <<>> (null payload) or <<payload>>
GQL(reply) ==
    IF reply.fetch = "rejected" THEN Threw(<<"fetch failed">>)
    ELSE IF reply.json = "invalid" THEN Threw(<<"Unexpected token in JSON">>)
    ELSE IF reply.json = "null" THEN Threw(<<"Cannot read properties of null">>)
    ELSE IF ~reply.ok \/ reply.errors # <<>>
         THEN Threw(IF reply.errors # <<>> THEN <<"[">> \o reply.errors \o <<"]">>
                    ELSE <<"GraphQL HTTP", reply.status>>)
    ELSE IF reply.data = <<>> THEN [threw |-> FALSE, message |-> <<>>,
                                    staged |-> <<>>, created |-> <<>>]
    ELSE Returned(reply.data[1])

(***************************************************************************)
(* What the remote service may answer                                      *)
(***************************************************************************)
UserMessages == { <<>>, <<"Filename is invalid">>, <<"Validation failed:", FORMAT_REJECTION>> }

UserErrorLists == {<<>>} \cup {<<[message |-> m]>> : m \in UserMessages}

ParamPool == { [name |-> "key", value |-> "tmp/1/a"], [name |-> "policy", value |-> "eyJ"] }

Targets ==
    { [url |-> "https://staged.example/upload", resourceUrl |-> "https://staged.example/r/1",
       parameters |-> ps] : ps \in SeqsUpTo(ParamPool, MaxParams) }

GqlReply(fetch, ok, status, json, errors, data) ==
    [fetch |-> fetch, ok |-> ok, status |-> status, json |-> json,
     errors |-> errors, data |-> data]

\* replies from which GQL throws, or which carry no payload
GqlFailures ==
    { GqlReply("rejected", FALSE, "0", "invalid", <<>>, <<>>),
      GqlReply("resolved", TRUE, "200", "invalid", <<>>, <<>>),
      GqlReply("resolved", TRUE, "200", "null", <<>>, <<>>),
      GqlReply("resolved", FALSE, "502", "object", <<>>, <<>>),
      GqlReply("resolved", TRUE, "200", "object", <<"Throttled">>, <<>>),
      GqlReply("resolved", TRUE, "200", "object", <<>>, <<>>),
      GqlReply("resolved", TRUE, "200", "object", <<>>,
               <<[staged |-> <<>>, created |-> <<>>]>>) }

StagedReplies ==
    GqlFailures \cup
    { GqlReply("resolved", TRUE, "200", "object", <<>>,
               <<[staged |-> <<[stagedTargets |-> ts, userErrors |-> es]>>,
                  created |-> <<>>]>>) :
        ts \in {<<>>} \cup {<<t>> : t \in Targets}, es \in UserErrorLists }

Nodes ==
    { [typename |-> "MediaImage", id |-> "gid://shopify/MediaImage/1",
       imageUrl |-> <<"https://cdn.example/files/a.jpg">>, url |-> <<>>],
      [typename |-> "MediaImage", id |-> "gid://shopify/MediaImage/2",
       imageUrl |-> <<>>, url |-> <<>>],
      [typename |-> "GenericFile", id |-> "gid://shopify/GenericFile/3",
       imageUrl |-> <<>>, url |-> <<"https://cdn.example/files/b.bin">>],
      [typename |-> "GenericFile", id |-> "gid://shopify/GenericFile/4",
       imageUrl |-> <<>>, url |-> <<>>],
      [typename |-> "Video", id |-> "gid://shopify/Video/5",
       imageUrl |-> <<>>, url |-> <<>>] }

FinalizeReplies ==
    GqlFailures \cup
    { GqlReply("resolved", TRUE, "200", "object", <<>>,
               <<[staged |-> <<>>,
                  created |-> <<[files |-> fs, userErrors |-> es]>>]>>) :
        fs \in {<<>>} \cup {<<n>> : n \in Nodes}, es \in UserErrorLists }

BodyTexts == { <<>>, <<"AccessDenied">>, <<FORMAT_REJECTION>> }

\* the binary POST's outcome; textFails: upRes.text() rejects
UploadReplies ==
    { [fetch |-> "rejected", ok |-> FALSE, status |-> 0, text |-> <<>>, textFails |-> FALSE],
      [fetch |-> "resolved", ok |-> TRUE, status |-> 204, text |-> <<>>, textFails |-> FALSE],
      [fetch |-> "resolved", ok |-> FALSE, status |-> 403, text |-> <<"AccessDenied">>,
       textFails |-> TRUE] }
    \cup { [fetch |-> "resolved", ok |-> FALSE, status |-> 403, text |-> t,
            textFails |-> FALSE] : t \in BodyTexts }

(***************************************************************************)
(* handler: the steps between its awaits                                   *)
(***************************************************************************)
NoTarget == [url |-> "", resourceUrl |-> "", parameters |-> <<>>]

LocalIdle == [mimeType |-> <<>>, safeName |-> <<>>, fileSize |-> "", target |-> NoTarget]

ParseIdle ==
    [state |-> "none", filepath |-> "", filename |-> <<>>, mimetype |-> <<>>,
     size |-> 0, error |-> <<>>]

WsIdle == [state |-> "none", buffered |-> 0]

DiskIdle == [exists |-> FALSE, bytes |-> 0, unlink |-> "none"]

\* return: the handler's promise resolves with response r
Return(r) ==
    /\ responses' = Append(responses, r)
    /\ pc' = "done"

\* line 133: !target || err1
StagedRefused(targets, userErrors) == targets = <<>> \/ userErrors # <<>>

\* line 133: err1?.message || "Failed stagedUploadsCreate"
StagedMessage(userErrors) ==
    IF userErrors # <<>> /\ userErrors[1].message # <<>> THEN userErrors[1].message
    ELSE <<"Failed stagedUploadsCreate">>

\* line 138 before line 137: the file field ahead of the staged parameters
BuildFormFileFirst(parameters) ==
    <<[name |-> "file", value |-> "<blob>"]>>
    \o [i \in 1..Len(parameters) |-> [name |-> parameters[i].name, value |-> parameters[i].value]]

\* lines 136-138: the form of the binary POST
BuildForm(parameters) ==
    [i \in 1..Len(parameters) |-> [name |-> parameters[i].name, value |-> parameters[i].value]]
    \o <<[name |-> "file", value |-> "<blob>"]>>

\* the check of line 140 left out
UploadNeverRefused(upRes) == FALSE

\* line 140: !upRes.ok
UploadRefused(upRes) == ~upRes.ok

\* lines 141-142
UploadMessage(upRes) ==
    <<"Staged upload failed:", ToString(upRes.status)>>
    \o (IF upRes.textFails THEN <<>> ELSE upRes.text)

\* lines 153-155: <<>> is null
CreatedUrl(files) ==
    IF files = <<>> THEN <<>>
    ELSE LET node == files[1]
         IN  IF node.typename = "MediaImage" /\ node.imageUrl # <<>> THEN node.imageUrl
             ELSE IF node.typename = "GenericFile" /\ node.url # <<>> THEN node.url
             ELSE <<>>

StagedCall(loc) ==
    [call |-> "stagedUploadsCreate",
     input |-> [resource |-> "IMAGE", filename |-> loc.safeName, mimeType |-> loc.mimeType,
                httpMethod |-> "POST", fileSize |-> loc.fileSize]]

UploadCall(loc, bytes) ==
    [call |-> "upload", url |-> loc.target.url, form |-> BuildForm(loc.target.parameters),
     file |-> [name |-> loc.safeName, type |-> loc.mimeType, bytes |-> bytes]]

FilesCreateCall(loc) ==
    [call |-> "filesCreate",
     files |-> [originalSource |-> loc.target.resourceUrl, contentType |-> "IMAGE",
                alt |-> loc.safeName, fileName |-> loc.safeName]]

\* lines 106-108
Preflight ==
    /\ pc = "start" /\ ~fault
    /\ event.httpMethod = "OPTIONS"
    /\ Return(PreflightResponse)
    /\ UNCHANGED <<san, event, parse, ws, disk, local, calls, replies, fault>>

\* lines 109-111
MethodGate ==
    /\ pc = "start" /\ ~fault
    /\ event.httpMethod \notin {"OPTIONS", "POST"}
    /\ Return(MethodNotAllowedResponse)
    /\ UNCHANGED <<san, event, parse, ws, disk, local, calls, replies, fault>>

\* lines 113-117
ConfigGate ==
    /\ pc = "start" /\ ~fault
    /\ event.httpMethod = "POST"
    /\ ~event.configured
    /\ Return(MissingEnvResponse)
    /\ UNCHANGED <<san, event, parse, ws, disk, local, calls, replies, fault>>

\* line 120 and lines 82-101: the promise executor runs to bb.end(buf); the 'file'
\* listener creates the write stream, whose open and writes are asynchronous; by
\* the parser's 'finish' every byte of the part has been counted into size and
\* handed to the write stream
ParseMultipart ==
    /\ pc = "start" /\ ~fault
    /\ event.httpMethod = "POST"
    /\ event.configured
    /\ parse' = parseMultipart(event)
    /\ ws' = IF EmitsFile(event) THEN [state |-> "opening", buffered |-> event.nbytes]
                                 ELSE ws
    /\ pc' = "await_parse"
    /\ UNCHANGED <<san, event, disk, local, calls, replies, responses, fault>>

\* lines 120-130, and the catch block
AfterParse ==
    /\ pc = "await_parse" /\ ~fault
    /\ IF parse.state = "rejected"
       THEN Return(CatchResponse(parse.error)) /\ UNCHANGED <<local, calls>>
       ELSE IF parse.filepath = ""
       THEN Return(CatchResponse(<<"No file uploaded">>)) /\ UNCHANGED <<local, calls>>
       ELSE LET loc == [mimeType |-> SAFE_IMAGE_MIME(parse.mimetype),
                        safeName |-> SAFE_FILENAME(parse.filename, DOT_JPG),
                        fileSize |-> ToString(parse.size),
                        target   |-> NoTarget]
            IN  /\ local' = loc
                /\ calls' = Append(calls, StagedCall(loc))
                /\ pc' = "await_staged"
                /\ UNCHANGED responses
    /\ UNCHANGED <<san, event, parse, ws, disk, replies, fault>>

\* lines 128-138 up to the await of fileFrom, and the catch block
StagedReply ==
    /\ pc = "await_staged" /\ ~fault
    /\ \E reply \in StagedReplies :
        LET r == GQL(reply)
        IN  /\ replies' = Append(replies, reply)
            /\ IF r.threw
               THEN Return(CatchResponse(r.message)) /\ UNCHANGED local
               ELSE IF r.staged = <<>>
               THEN Return(CatchResponse(<<"Cannot read properties of undefined">>))
                    /\ UNCHANGED local
               ELSE LET payload == r.staged[1]
                    IN  IF StagedRefused(payload.stagedTargets, payload.userErrors)
                        THEN Return(CatchResponse(StagedMessage(payload.userErrors)))
                             /\ UNCHANGED local
                        ELSE /\ local' = [local EXCEPT !.target = payload.stagedTargets[1]]
                             /\ pc' = "await_fileFrom"
                             /\ UNCHANGED responses
    /\ UNCHANGED <<san, event, parse, ws, disk, calls, fault>>

\* lines 138-139: fileFrom reads the scratch file as it is on disk now; the form is
\* posted to the staged target
FileFrom ==
    /\ pc = "await_fileFrom" /\ ~fault
    /\ IF ~disk.exists
       THEN Return(CatchResponse(<<"ENOENT: no such file or directory">>))
            /\ UNCHANGED calls
       ELSE /\ calls' = Append(calls, UploadCall(local, disk.bytes))
            /\ pc' = "await_upload"
            /\ UNCHANGED responses
    /\ UNCHANGED <<san, event, parse, ws, disk, local, replies, fault>>

\* lines 139-148, and the catch block
UploadReply ==
    /\ pc = "await_upload" /\ ~fault
    /\ \E upRes \in UploadReplies :
        /\ replies' = Append(replies, upRes)
        /\ IF upRes.fetch = "rejected"
           THEN Return(CatchResponse(<<"fetch failed">>)) /\ UNCHANGED calls
           ELSE IF UploadRefused(upRes)
           THEN Return(CatchResponse(UploadMessage(upRes))) /\ UNCHANGED calls
           ELSE /\ calls' = Append(calls, FilesCreateCall(local))
                /\ pc' = "await_finalize"
                /\ UNCHANGED responses
    /\ UNCHANGED <<san, event, parse, ws, disk, local, fault>>

\* line 158: try { fs.unlinkSync(filepath) } catch {}
Unlink(d, fails) ==
    IF d.exists /\ ~fails THEN [exists |-> FALSE, bytes |-> 0, unlink |-> "done"]
    ELSE [d EXCEPT !.unlink = "failed"]

\* lines 146-160, and the catch block
FinalizeReply ==
    /\ pc = "await_finalize" /\ ~fault
    /\ \E reply \in FinalizeReplies :
        LET r == GQL(reply)
        IN  /\ replies' = Append(replies, reply)
            /\ IF r.threw
               THEN Return(CatchResponse(r.message)) /\ UNCHANGED disk
               ELSE IF r.created = <<>>
               THEN Return(CatchResponse(<<"Cannot read properties of undefined">>))
                    /\ UNCHANGED disk
               ELSE LET payload == r.created[1]
                        url == CreatedUrl(payload.files)
                    IN  IF payload.userErrors # <<>>
                        THEN Return(CatchResponse(payload.userErrors[1].message))
                             /\ UNCHANGED disk
                        ELSE IF url = <<>>
                        THEN Return(CatchResponse(<<"No URL on created file">>))
                             /\ UNCHANGED disk
                        ELSE /\ \E fails \in BOOLEAN : disk' = Unlink(disk, fails)
                             /\ Return(SuccessResponse(url[1], payload.files[1].id,
                                                       local.safeName, local.mimeType))
    /\ UNCHANGED <<san, event, parse, ws, local, calls, fault>>

(***************************************************************************)
(* The scratch file's write stream (lines 92-94), which runs beside the    *)
(* handler: nothing in lines 96 or 120 waits for it                        *)
(***************************************************************************)
\* fs.createWriteStream opens (creates) the file
WsOpen ==
    /\ ~fault
    /\ ws.state = "opening"
    /\ ws' = [ws EXCEPT !.state = "open"]
    /\ disk' = [disk EXCEPT !.exists = TRUE, !.bytes = 0]
    /\ UNCHANGED <<san, event, pc, parse, local, calls, replies, responses, fault>>

\* one buffered byte reaches the file
WsWrite ==
    /\ ~fault
    /\ ws.state = "open"
    /\ ws.buffered > 0
    /\ ws' = [ws EXCEPT !.buffered = @ - 1]
    /\ disk' = IF disk.exists THEN [disk EXCEPT !.bytes = @ + 1] ELSE disk
    /\ UNCHANGED <<san, event, pc, parse, local, calls, replies, responses, fault>>

\* the open or a write fails (EACCES, ENOSPC): the stream emits 'error', which has
\* no listener (line 92 attaches none), so it is thrown as an uncaught exception
WsError ==
    /\ ~fault
    /\ ws.state = "opening" \/ (ws.state = "open" /\ ws.buffered > 0)
    /\ ws' = [ws EXCEPT !.state = "errored"]
    /\ fault' = TRUE
    /\ UNCHANGED <<san, event, pc, parse, disk, local, calls, replies, responses>>

HandlerIdle ==
    /\ pc = "start"
    /\ parse = ParseIdle
    /\ ws = WsIdle
    /\ disk = DiskIdle
    /\ local = LocalIdle
    /\ calls = <<>>
    /\ replies = <<>>
    /\ responses = <<>>
    /\ fault = FALSE

Init ==
    /\ san = SanIdle
    /\ event \in Events
    /\ HandlerIdle

Next ==
    \/ Preflight
    \/ MethodGate
    \/ ConfigGate
    \/ ParseMultipart
    \/ AfterParse
    \/ StagedReply
    \/ FileFrom
    \/ UploadReply
    \/ FinalizeReply
    \/ WsOpen
    \/ WsWrite
    \/ WsError

Spec == Init /\ [][Next]_vars

(***************************************************************************)
(* The sanitizers applied to the bounded inputs, once and again            *)
(***************************************************************************)
SanInput(name, mime) == [SanIdle EXCEPT !.stage = "input", !.name = name, !.mime = mime]

\* a filename made of a run of "a", a short tail over NameAlphabet and a suffix, or
\* a MIME type made of a prefix and a few words
SanInit ==
    /\ \/ \E n \in RunLengths, t \in SeqsUpTo(NameAlphabet, MaxTail), x \in NameSuffixes :
            san = SanInput(Run("a", n) \o t \o x, IMAGE_JPEG)
       \/ \E p \in MimePrefixes, w \in SeqsUpTo(MimeWords, MaxWords) :
            san = SanInput(<<"t","e","s","t",".","j","p","g">>, p \o Concat(w))
    /\ event = CHOOSE e \in Events : TRUE
    /\ HandlerIdle

\* lines 123-124
Sanitize ==
    /\ san.stage = "input"
    /\ san' = [san EXCEPT !.stage = "sanitized",
                          !.fname = SAFE_FILENAME(san.name, DOT_JPG),
                          !.fmime = SAFE_IMAGE_MIME(san.mime)]
    /\ UNCHANGED handlerVars

\* the sanitized pair sanitized again
Resanitize ==
    /\ san.stage = "sanitized"
    /\ san' = [san EXCEPT !.stage = "resanitized",
                          !.rname = SAFE_FILENAME(san.fname, DOT_JPG),
                          !.rmime = SAFE_IMAGE_MIME(san.fmime)]
    /\ UNCHANGED handlerVars

SanNext == Sanitize \/ Resanitize

SanSpec == SanInit /\ [][SanNext]_vars

(***************************************************************************)
(* Properties of the sanitizers (under SanSpec)                            *)
(***************************************************************************)
LowerChars == Range(Lower)

AllowListed == {IMAGE_JPEG, IMAGE_WEBP, IMAGE_PNG, IMAGE_GIF, IMAGE_BMP, IMAGE_TIFF}

IMAGE_PREFIX == <<"i","m","a","g","e","/">>

Sanitized == san.stage \in {"sanitized", "resanitized"}

\* C5 as stated: every sanitized filename matches ^[a-z0-9\-_.]{1,84}$, that is, it
\* has 1 to 84 characters, each a lower-case letter, a digit, '-', '_' or '.'.
C5_MatchesLowerCasePattern84 ==
    Sanitized =>
        /\ Len(san.fname) \in 1..84
        /\ \A i \in 1..Len(san.fname) :
              san.fname[i] \in LowerChars \cup Digits \cup {"-", "_", "."}

\* C5 as amended: every sanitized filename matches ^[A-Za-z0-9\-_.]{1,86}$; it is a
\* base of 1 to 80 characters (upper-case letters kept) followed by an extension
\* of a dot and 2 to 5 lower-case letters or digits.
C5_MatchesPattern86 ==
    Sanitized =>
        /\ Len(san.fname) \in 1..86
        /\ \A i \in 1..Len(san.fname) :
              san.fname[i] \in LowerChars \cup UpperChars \cup Digits \cup {"-", "_", "."}
        /\ \E k \in 2..5 :
              LET n == Len(san.fname)
              IN  /\ n - k - 1 \in 1..80
                  /\ san.fname[n - k] = "."
                  /\ \A j \in (n - k + 1)..n : san.fname[j] \in LowerChars \cup Digits

\* C5 witness: a name longer than 86 characters has been sanitized to exactly 86,
\* its base cut to 80 ahead of a five-character extension.
C5_TruncatedTo86 ==
    /\ san.stage = "sanitized"
    /\ Len(san.name) > 86
    /\ Len(san.fname) = 86

\* whether the lower-cased type names an image
IsImageType(mt) == StartsWith(ToLowerCase(mt), IMAGE_PREFIX)

MimeKeys == << <<"w","e","b","p">>, <<"p","n","g">>, <<"g","i","f">>, <<"b","m","p">>,
               <<"t","i","f">> >>

MimeOfKey == <<IMAGE_WEBP, IMAGE_PNG, IMAGE_GIF, IMAGE_BMP, IMAGE_TIFF>>

MentionsHeic(mt) ==
    \/ Includes(ToLowerCase(mt), <<"h","e","i","c">>)
    \/ Includes(ToLowerCase(mt), <<"h","e","i","f">>)

KeysIn(mt) == {i \in 1..Len(MimeKeys) : Includes(ToLowerCase(mt), MimeKeys[i])}

\* the part of C6 that needs no amendment: the result is allow-listed; an absent or
\* non-image type and HEIC/HEIF give image/jpeg; an allow-listed type is returned
\* as it is
C6_Common ==
    /\ san.fmime \in AllowListed
    /\ (san.mime = <<>> \/ ~IsImageType(san.mime)) => san.fmime = IMAGE_JPEG
    /\ (IsImageType(san.mime) /\ MentionsHeic(san.mime)) => san.fmime = IMAGE_JPEG
    /\ san.mime \in AllowListed => san.fmime = san.mime

\* C6 as stated: the result is always allow-listed; absent or non-image types and
\* HEIC/HEIF give image/jpeg, allow-listed types come back verbatim, and every
\* other image type gives image/jpeg.
C6_OtherImageTypesGiveJpeg ==
    Sanitized =>
        /\ C6_Common
        /\ (IsImageType(san.mime) /\ ToLowerCase(san.mime) \notin AllowListed)
              => san.fmime = IMAGE_JPEG

\* C6 as amended: as stated, except that another image type gives image/jpeg only
\* when its lower-cased name contains none of webp, png, gif, bmp, tif; when it
\* contains some (and neither heic nor heif) the result is the allow-listed type of
\* the first of them in that order.
C6_OtherImageTypesByFirstKey ==
    Sanitized =>
        /\ C6_Common
        /\ (IsImageType(san.mime) /\ KeysIn(san.mime) = {}) => san.fmime = IMAGE_JPEG
        /\ (IsImageType(san.mime) /\ ~MentionsHeic(san.mime) /\ KeysIn(san.mime) # {})
              => san.fmime = MimeOfKey[MinOf(KeysIn(san.mime))]

\* C6 witness: image/x-png, an image type off the allow-list, has been sanitized to
\* image/png.
C6_XPngGivesPng ==
    /\ san.stage = "sanitized"
    /\ san.mime = IMAGE_PREFIX \o <<"x","-","p","n","g">>
    /\ san.fmime = IMAGE_PNG

\* C7: sanitizing an already-sanitized filename / MIME pair changes nothing.
C7_SanitizeIdempotent ==
    san.stage = "resanitized" => san.rname = san.fname /\ san.rmime = san.fmime

(***************************************************************************)
(* Properties of the handler (under Spec)                                  *)
(***************************************************************************)
Done == pc = "done"

Response == responses[1]

IsUploadRequest == event.httpMethod = "POST" /\ event.configured

Contains(message, fragment) == \E i \in 1..Len(message) : message[i] = fragment

HasErrorEnvelope(r) ==
    /\ "body" \in DOMAIN r
    /\ DOMAIN r.body = {"error"}
    /\ r.body.error # <<>>

HasSuccessEnvelope(r) ==
    /\ "body" \in DOMAIN r
    /\ DOMAIN r.body = {"url", "id", "filename", "mimeType"}

\* what a GraphQL reply carries when the call succeeded at the transport and
\* GraphQL levels: <<payload>>, else <<>>
PayloadOf(reply, member) ==
    IF /\ reply.fetch = "resolved" /\ reply.ok /\ reply.json = "object"
       /\ reply.errors = <<>> /\ reply.data # <<>>
    THEN (IF member = "staged" THEN reply.data[1].staged ELSE reply.data[1].created)
    ELSE <<>>

\* C1: on every exit path, a step by which the handler returns while the scratch
\* file exists leaves it deleted (unless the deletion itself failed).
C1_ScratchFileDeletedOnReturn ==
    [][(pc # "done" /\ pc' = "done" /\ disk.exists)
          => (~disk'.exists \/ disk'.unlink = "failed")]_vars

\* C2: a POST whose body has no file part, or is malformed, is answered with
\* status 400 and an {error} message, and no remote call is issued.
C2_NoFileIsClientError ==
    (Done /\ IsUploadRequest /\ event.body # "file") =>
        /\ Response.statusCode = 400
        /\ HasErrorEnvelope(Response)
        /\ calls = <<>>

StagedUserError ==
    /\ Len(replies) >= 1
    /\ PayloadOf(replies[1], "staged") # <<>>
    /\ PayloadOf(replies[1], "staged")[1].userErrors # <<>>

StagedNoTarget ==
    /\ Len(replies) >= 1
    /\ PayloadOf(replies[1], "staged") # <<>>
    /\ PayloadOf(replies[1], "staged")[1].stagedTargets = <<>>

StagedUserMessage == PayloadOf(replies[1], "staged")[1].userErrors[1].message

UploadNonSuccess ==
    /\ Len(replies) >= 2
    /\ replies[2].fetch = "resolved"
    /\ ~replies[2].ok

\* the part of C3 that needs no amendment: a refused staged-create ends the
\* request after one remote call, a refused binary POST after two, no call is
\* issued twice, and the response to either is a 500 error envelope
C3_Terminal ==
    /\ (StagedUserError \/ StagedNoTarget) =>
          Done /\ Len(calls) = 1 /\ Response.statusCode = 500 /\ HasErrorEnvelope(Response)
    /\ UploadNonSuccess =>
          Done /\ Len(calls) = 2 /\ Response.statusCode = 500 /\ HasErrorEnvelope(Response)
    /\ \A i, j \in 1..Len(calls) : i # j => calls[i].call # calls[j].call

\* C3 as stated: a failure at a remote step is terminal (no later call, no retry),
\* and the 500 response's error is the user-error message of staged-create, or a
\* string containing the binary POST's HTTP status.
C3_FailureCarriesDiagnostic ==
    /\ C3_Terminal
    /\ StagedUserError => Response.body.error = StagedUserMessage
    /\ UploadNonSuccess => Contains(Response.body.error, ToString(replies[2].status))

\* C3 as amended: as stated, except that a diagnostic matching "did not match the
\* expected pattern" is replaced by the fixed format-rejection hint, and an empty
\* user-error message by "Failed stagedUploadsCreate".
C3_FailureCarriesDiagnosticOrHint ==
    /\ C3_Terminal
    /\ StagedUserError =>
          Response.body.error =
              IF Contains(StagedUserMessage, FORMAT_REJECTION) THEN FRIENDLY
              ELSE IF StagedUserMessage = <<>> THEN <<"Failed stagedUploadsCreate">>
              ELSE StagedUserMessage
    /\ UploadNonSuccess =>
          IF ~replies[2].textFails /\ Contains(replies[2].text, FORMAT_REJECTION)
          THEN Response.body.error = FRIENDLY
          ELSE Contains(Response.body.error, ToString(replies[2].status))

\* C3 witness: the binary POST was refused with 403 and the handler has answered
\* 500 with an error naming 403, two remote calls issued.
C3_UploadRefused403 ==
    /\ Done
    /\ UploadNonSuccess
    /\ replies[2].status = 403
    /\ Len(calls) = 2
    /\ Response.statusCode = 500
    /\ Contains(Response.body.error, "403")

StagedSucceeded(reply) ==
    /\ PayloadOf(reply, "staged") # <<>>
    /\ PayloadOf(reply, "staged")[1].stagedTargets # <<>>
    /\ PayloadOf(reply, "staged")[1].userErrors = <<>>

FinalizeSucceeded(reply) ==
    /\ PayloadOf(reply, "created") # <<>>
    /\ PayloadOf(reply, "created")[1].files # <<>>
    /\ PayloadOf(reply, "created")[1].userErrors = <<>>

\* the URL of a file record: of its image for a MediaImage, its own otherwise
RecordUrl(node) == IF node.typename = "MediaImage" THEN node.imageUrl ELSE node.url

\* C4: a 200 answer to an upload request means staged-create, the binary POST and
\* finalize were each issued once, in that order, and each succeeded; the binary
\* POST went to the staged target's URL with every staged parameter in the order
\* received and then the `file` field; and the body's url is the URL of the file
\* record finalize returned.
C4_SuccessOnlyAfterFullPipeline ==
    (Done /\ IsUploadRequest /\ Response.statusCode = 200) =>
        /\ [i \in 1..Len(calls) |-> calls[i].call]
              = <<"stagedUploadsCreate", "upload", "filesCreate">>
        /\ Len(replies) = 3
        /\ StagedSucceeded(replies[1])
        /\ replies[2].fetch = "resolved" /\ replies[2].ok
        /\ FinalizeSucceeded(replies[3])
        /\ LET target == PayloadOf(replies[1], "staged")[1].stagedTargets[1]
               n      == Len(target.parameters)
               form   == calls[2].form
           IN  /\ calls[2].url = target.url
               /\ Len(form) = n + 1
               /\ \A i \in 1..n : /\ form[i].name = target.parameters[i].name
                                  /\ form[i].value = target.parameters[i].value
               /\ form[n + 1].name = "file"
        /\ HasSuccessEnvelope(Response)
        /\ <<Response.body.url>> = RecordUrl(PayloadOf(replies[3], "created")[1].files[1])

\* C4 witness: a 200 answer after a staged target with two different parameters.
C4_SuccessWithTwoParameters ==
    /\ Done /\ IsUploadRequest
    /\ Response.statusCode = 200
    /\ Len(calls) = 3
    /\ Len(calls[2].form) = 3
    /\ calls[2].form[1].name # calls[2].form[2].name

CorsHeaderNames ==
    {"Access-Control-Allow-Origin", "Access-Control-Allow-Methods",
     "Access-Control-Allow-Headers"}

\* C8: every response carries the three CORS headers, and an OPTIONS request is
\* answered at once with an empty body: nothing parsed, no scratch file, no
\* remote call.
C8_CorsOnEveryResponse ==
    /\ \A i \in 1..Len(responses) : CorsHeaderNames \subseteq DOMAIN responses[i].headers
    /\ event.httpMethod = "OPTIONS" =>
          /\ pc \in {"start", "done"}
          /\ parse = ParseIdle /\ ws = WsIdle /\ disk = DiskIdle /\ calls = <<>>
          /\ Done => "body" \notin DOMAIN Response

\* C8 witness: an OPTIONS request has been answered, with the three CORS headers
\* and no body.
C8_PreflightAnswered ==
    /\ Done
    /\ event.httpMethod = "OPTIONS"
    /\ Len(responses) = 1
    /\ DOMAIN Response.headers = CorsHeaderNames
    /\ "body" \notin DOMAIN Response

\* C9: whatever parsing and the remote calls do, the handler ends with exactly one
\* response carrying the success envelope or the error envelope (the preflight
\* answer apart), and no error escapes as an unhandled fault.
C9_OneEnvelopeNoFault ==
    /\ ~fault
    /\ Len(responses) <= 1
    /\ Done =>
          /\ Len(responses) = 1
          /\ event.httpMethod # "OPTIONS" =>
                HasSuccessEnvelope(Response) \/ HasErrorEnvelope(Response)

\* C10: the bytes sent in the binary POST are all the bytes of the uploaded part,
\* the number declared as fileSize in staged-create.
C10_UploadSendsAllBytes ==
    \A i \in 1..Len(calls) :
        calls[i].call = "upload" =>
            /\ calls[i].file.bytes = event.nbytes
            /\ ToString(calls[i].file.bytes) = calls[1].input.fileSize

====
